---- MODULE Spec2Model ----
(***************************************************************************)
(* A model of todo.py, a persistent command-line to-do list.               *)
(*                                                                         *)
(* Strings are sequences of one-character strings.  The backing file       *)
(* tasks.txt is a record: whether it exists, and its content.  A task is   *)
(* a record [done, text].  Each running instance of the program has its    *)
(* own in-memory list and its own position in main(); the file is shared.  *)
(* Line terminators are written as on POSIX (os.linesep = "\n").           *)
(***************************************************************************)
EXTENDS Integers, Sequences, FiniteSets, TLC

(***************************************************************************)
(* Bounds of the model.                                                    *)
(***************************************************************************)
\* a successful add is taken only while the list is shorter than this
MaxTasks == 2
\* longest raw file content drawn for the load/save specification
MaxFileLen == 4
\* longest task text drawn for the load/save specification
MaxTextLen == 1
\* longest task sequence drawn for the load/save specification
MaxGiven == 2

(***************************************************************************)
(* Characters.                                                             *)
(***************************************************************************)
NL == "\n"
CR == "\r"
TAB == "\t"

\* the characters str.strip() and int() treat as white space
Whitespace == {" ", TAB, NL, CR}

UpperCase == <<"A","B","C","D","E","F","G","H","I","J","K","L","M",
               "N","O","P","Q","R","S","T","U","V","W","X","Y","Z">>
LowerCase == <<"a","b","c","d","e","f","g","h","i","j","k","l","m",
               "n","o","p","q","r","s","t","u","v","w","x","y","z">>
Digits == <<"0","1","2","3","4","5","6","7","8","9">>

(***************************************************************************)
(* String methods used by the program.                                     *)
(***************************************************************************)
RECURSIVE LStrip(_)
LStrip(s) ==
  IF s # <<>> /\ Head(s) \in Whitespace THEN LStrip(Tail(s)) ELSE s

RECURSIVE RStrip(_)
RStrip(s) ==
  IF s # <<>> /\ s[Len(s)] \in Whitespace
  THEN RStrip(SubSeq(s, 1, Len(s) - 1)) ELSE s

\* str.strip()
Strip(s) == RStrip(LStrip(s))

\* str.rstrip("\n")
RECURSIVE RStripNL(_)
RStripNL(s) ==
  IF s # <<>> /\ s[Len(s)] = NL
  THEN RStripNL(SubSeq(s, 1, Len(s) - 1)) ELSE s

\* str.lower(), on one character and on a string
LowerChar(c) ==
  IF \E i \in 1..26 : UpperCase[i] = c
  THEN LowerCase[CHOOSE i \in 1..26 : UpperCase[i] = c] ELSE c
Lower(s) == [i \in 1..Len(s) |-> LowerChar(s[i])]

\* position of the first occurrence of c in s, 0 when there is none
Find(s, c) ==
  IF \E i \in 1..Len(s) : s[i] = c
  THEN CHOOSE i \in 1..Len(s) : s[i] = c /\ \A j \in 1..(i - 1) : s[j] # c
  ELSE 0

\* position of the last occurrence of c in s, 0 when there is none
FindLast(s, c) ==
  IF \E i \in 1..Len(s) : s[i] = c
  THEN CHOOSE i \in 1..Len(s) : s[i] = c /\ \A j \in (i + 1)..Len(s) : s[j] # c
  ELSE 0

\* str.split(sep, 1): one part when sep is absent, else two
SplitAt(s, k) ==
  IF k = 0 THEN <<s>> ELSE <<SubSeq(s, 1, k - 1), SubSeq(s, k + 1, Len(s))>>
SplitLast(s, sep) == SplitAt(s, FindLast(s, sep))
Split1(s, sep) == SplitAt(s, Find(s, sep))

\* int(s): white space around, an optional sign, decimal digits with single
\* underscores between them
IsDigit(c) == \E i \in 1..10 : Digits[i] = c
DigitVal(c) == (CHOOSE i \in 1..10 : Digits[i] = c) - 1
IntBody(s) ==
  LET t == Strip(s)
  IN IF t # <<>> /\ Head(t) \in {"+", "-"} THEN Tail(t) ELSE t
IntNegative(s) ==
  LET t == Strip(s) IN t # <<>> /\ Head(t) = "-"
IntOk(s) ==
  LET b == IntBody(s)
  IN /\ b # <<>>
     /\ \A i \in 1..Len(b) : IsDigit(b[i]) \/ b[i] = "_"
     /\ IsDigit(b[1]) /\ IsDigit(b[Len(b)])
     /\ \A i \in 1..(Len(b) - 1) : ~(b[i] = "_" /\ b[i + 1] = "_")
RECURSIVE Magnitude(_, _)
Magnitude(b, acc) ==
  IF b = <<>> THEN acc
  ELSE IF Head(b) = "_" THEN Magnitude(Tail(b), acc)
  ELSE Magnitude(Tail(b), 10 * acc + DigitVal(Head(b)))
IntVal(s) ==
  IF IntNegative(s) THEN 0 - Magnitude(IntBody(s), 0)
  ELSE Magnitude(IntBody(s), 0)

(***************************************************************************)
(* The store: load_tasks and save_tasks.                                   *)
(***************************************************************************)
Absent == [exists |-> FALSE, data |-> <<>>]
Existing(d) == [exists |-> TRUE, data |-> d]

Task(d, t) == [done |-> d, text |-> t]

\* reading in text mode with newline=None: "\r\n" and "\r" arrive as "\n"
RECURSIVE UniversalNewlines(_)
UniversalNewlines(s) ==
  IF s = <<>> THEN <<>>
  ELSE IF Head(s) = CR
  THEN IF Len(s) >= 2 /\ s[2] = NL
       THEN <<NL>> \o UniversalNewlines(Tail(Tail(s)))
       ELSE <<NL>> \o UniversalNewlines(Tail(s))
  ELSE <<Head(s)>> \o UniversalNewlines(Tail(s))

\* "for line in f": the lines of the content, each with its terminator
RECURSIVE FileLines(_)
FileLines(s) ==
  IF s = <<>> THEN <<>>
  ELSE LET k == Find(s, NL)
       IN IF k = 0 THEN <<s>>
          ELSE <<SubSeq(s, 1, k)>> \o FileLines(SubSeq(s, k + 1, Len(s)))

\* the body of the loop of load_tasks for one line: the tasks it appends
ParseLineLast(raw) ==
  LET line == RStripNL(raw)
      parts == SplitLast(line, "|")
  IN IF line = <<>> THEN <<>>
     ELSE IF Len(parts) = 2 /\ parts[1] \in {<<"0">>, <<"1">>}
     THEN <<Task(parts[1] = <<"1">>, parts[2])>>
     ELSE <<Task(FALSE, line)>>
ParseLine(raw) ==
  LET line == RStripNL(raw)
      parts == Split1(line, "|")
  IN IF line = <<>> THEN <<>>
     ELSE IF Len(parts) = 2 /\ parts[1] \in {<<"0">>, <<"1">>}
     THEN <<Task(parts[1] = <<"1">>, parts[2])>>
     ELSE <<Task(FALSE, line)>>

RECURSIVE ParseLines(_)
ParseLines(ls) ==
  IF ls = <<>> THEN <<>> ELSE ParseLine(Head(ls)) \o ParseLines(Tail(ls))

load_tasks(f) ==
  IF ~f.exists THEN <<>>
  ELSE ParseLines(FileLines(UniversalNewlines(f.data)))

\* one line of save_tasks
FormatLineStripped(t) ==
  <<IF t.done THEN "1" ELSE "0">> \o <<"|">> \o Strip(t.text) \o <<NL>>
\* a line that leaves the flag of a task that is not done to the fallback
FormatLineBare(t) ==
  (IF t.done THEN <<"1", "|">> ELSE <<>>) \o t.text \o <<NL>>
FormatLine(t) ==
  <<IF t.done THEN "1" ELSE "0">> \o <<"|">> \o t.text \o <<NL>>

RECURSIVE FormatLines(_)
FormatLines(ts) ==
  IF ts = <<>> THEN <<>> ELSE FormatLine(Head(ts)) \o FormatLines(Tail(ts))

save_tasks(ts) == Existing(FormatLines(ts))

(***************************************************************************)
(* What the program prints: one entry per print call, a fixed part and the *)
(* interpolated part.  The prompts written by input() are not recorded.    *)
(***************************************************************************)
Msg(m, a) == [msg |-> m, arg |-> a]

RECURSIVE Decimal(_)
Decimal(n) ==
  IF n < 10 THEN <<Digits[n + 1]>>
  ELSE Decimal(n \div 10) \o <<Digits[(n % 10) + 1]>>

\* f"{i:2d}" for i >= 0
Format2d(i) == IF i < 10 THEN <<" ">> \o Decimal(i) ELSE Decimal(i)

Mark(t) == IF t.done THEN <<"[", "x", "]">> ELSE <<"[", " ", "]">>

list_tasks(ts) ==
  IF ts = <<>> THEN <<Msg("No tasks yet. Add one!\n", <<>>)>>
  ELSE <<Msg("\nYour To-Do List:", <<>>)>>
       \o [i \in 1..Len(ts) |->
             Msg("", Format2d(i) \o <<".", " ">> \o Mark(ts[i]) \o <<" ">>
                     \o ts[i].text)]
       \o <<Msg("", <<>>)>>

(***************************************************************************)
(* The task operations.  Each yields the list and the file it leaves, what *)
(* it printed and how many times it called save_tasks.                     *)
(***************************************************************************)
Outcome(ts, f, o, n) == [tasks |-> ts, file |-> f, out |-> o, nsaves |-> n]

add_task_unchecked(ts, f, text) ==
  LET t == Strip(text)
      ts2 == Append(ts, Task(FALSE, t))
  IN Outcome(ts2, save_tasks(ts2), <<Msg("Added task: ", t)>>, 1)
\* an add whose rejection says nothing
add_task_silent(ts, f, text) ==
  LET t == Strip(text)
      ts2 == Append(ts, Task(FALSE, t))
  IN IF t = <<>>
     THEN Outcome(ts, f, <<>>, 0)
     ELSE Outcome(ts2, save_tasks(ts2), <<Msg("Added task: ", t)>>, 1)
add_task(ts, f, text) ==
  LET t == Strip(text)
      ts2 == Append(ts, Task(FALSE, t))
  IN IF t = <<>>
     THEN Outcome(ts, f, <<Msg("Empty task not added.", <<>>)>>, 0)
     ELSE Outcome(ts2, save_tasks(ts2), <<Msg("Added task: ", t)>>, 1)

\* list.pop(k - 1)
PopLast(ts, k) == SubSeq(ts, 1, Len(ts) - 1)
Pop(ts, k) == SubSeq(ts, 1, k - 1) \o SubSeq(ts, k + 1, Len(ts))

remove_task(ts, f, index) ==
  IF ~IntOk(index)
  THEN Outcome(ts, f, <<Msg("Please enter a valid number.", <<>>)>>, 0)
  ELSE LET idx == IntVal(index) - 1
       IN IF idx < 0 \/ idx >= Len(ts)
          THEN Outcome(ts, f, <<Msg("Invalid task number.", <<>>)>>, 0)
          ELSE Outcome(Pop(ts, idx + 1), save_tasks(Pop(ts, idx + 1)),
                       <<Msg("Removed task: ", ts[idx + 1].text)>>, 1)

mark_done_wraps(ts, f, index, done) ==
  IF ~IntOk(index)
  THEN Outcome(ts, f, <<Msg("Please enter a valid number.", <<>>)>>, 0)
  ELSE LET idx == IntVal(index) - 1
           k == IF idx < 0 THEN Len(ts) + idx + 1 ELSE idx + 1
           ts2 == [ts EXCEPT ![k].done = done]
       IN IF idx >= Len(ts) \/ idx < 0 - Len(ts)
          THEN Outcome(ts, f, <<Msg("Invalid task number.", <<>>)>>, 0)
          ELSE Outcome(ts2, save_tasks(ts2),
                       <<Msg(IF done THEN "Marked task {index} as: Done"
                                     ELSE "Marked task {index} as: Not done",
                             index)>>, 1)
mark_done_always(ts, f, index, done) ==
  IF ~IntOk(index)
  THEN Outcome(ts, f, <<Msg("Please enter a valid number.", <<>>)>>, 0)
  ELSE LET idx == IntVal(index) - 1
           ts2 == [ts EXCEPT ![idx + 1].done = TRUE]
       IN IF idx < 0 \/ idx >= Len(ts)
          THEN Outcome(ts, f, <<Msg("Invalid task number.", <<>>)>>, 0)
          ELSE Outcome(ts2, save_tasks(ts2),
                       <<Msg(IF done THEN "Marked task {index} as: Done"
                                     ELSE "Marked task {index} as: Not done",
                             index)>>, 1)
\* a mark_done that flips the flag it finds
mark_done_toggles(ts, f, index, done) ==
  IF ~IntOk(index)
  THEN Outcome(ts, f, <<Msg("Please enter a valid number.", <<>>)>>, 0)
  ELSE LET idx == IntVal(index) - 1
           ts2 == [ts EXCEPT ![idx + 1].done = ~ts[idx + 1].done]
       IN IF idx < 0 \/ idx >= Len(ts)
          THEN Outcome(ts, f, <<Msg("Invalid task number.", <<>>)>>, 0)
          ELSE Outcome(ts2, save_tasks(ts2),
                       <<Msg(IF done THEN "Marked task {index} as: Done"
                                     ELSE "Marked task {index} as: Not done",
                             index)>>, 1)
mark_done(ts, f, index, done) ==
  IF ~IntOk(index)
  THEN Outcome(ts, f, <<Msg("Please enter a valid number.", <<>>)>>, 0)
  ELSE LET idx == IntVal(index) - 1
           ts2 == [ts EXCEPT ![idx + 1].done = done]
       IN IF idx < 0 \/ idx >= Len(ts)
          THEN Outcome(ts, f, <<Msg("Invalid task number.", <<>>)>>, 0)
          ELSE Outcome(ts2, save_tasks(ts2),
                       <<Msg(IF done THEN "Marked task {index} as: Done"
                                     ELSE "Marked task {index} as: Not done",
                             index)>>, 1)

clear_tasks_keeps(ts, f) == Outcome(ts, f, <<Msg("All tasks cleared.", <<>>)>>, 0)
clear_tasks(ts, f) == Outcome(ts, Absent, <<Msg("All tasks cleared.", <<>>)>>, 0)

show_help == <<Msg("Commands: ...", <<>>)>>

(***************************************************************************)
(* State.                                                                  *)
(***************************************************************************)
VARIABLES
  file,    \* tasks.txt
  tasks,   \* tasks[p]: the in-memory list of instance p
  pc,      \* pc[p]: where instance p is in main()
  inp,     \* what the latest step read from standard input
  last,    \* the operation the latest step called, and its argument
  out,     \* what the latest step printed
  nsaves,  \* how many times the latest step called save_tasks
  who,     \* the instance that took the latest step
  prior    \* "done" or "undo" when the step before, by the same instance,
           \* set that flag on the task the latest step set a flag on

vars == <<file, tasks, pc, inp, last, out, nsaves, who, prior>>

Instances == {"A", "B"}

Line(t) == [kind |-> "line", text |-> t]
Eof == [kind |-> "eof", text |-> <<>>]
Interrupt == [kind |-> "interrupt", text |-> <<>>]
NoInput == [kind |-> "none", text |-> <<>>]

Call(op, a) == [op |-> op, arg |-> a]
NoCall == Call("none", <<>>)

(***************************************************************************)
(* The command line: strip, split on the first space, lower-case.          *)
(***************************************************************************)
Cmd(line) == Strip(line)
Parts(line) == Split1(Cmd(line), " ")
Action(line) == Lower(Parts(line)[1])
Arg(line) == IF Len(Parts(line)) > 1 THEN Parts(line)[2] ELSE <<>>

ListAliases == {<<"l">>, <<"l","i","s","t">>}
AddAliases == {<<"a">>, <<"a","d","d">>}
RemoveAliases == {<<"r">>, <<"r","e","m","o","v","e">>}
DoneAliases == {<<"d">>, <<"d","o","n","e">>}
UndoAliases == {<<"u">>, <<"u","n","d","o">>}
ClearAliases == {<<"c">>, <<"c","l","e","a","r">>}
HelpAliases == {<<"h">>, <<"h","e","l","p">>}
QuitAliases == {<<"q">>, <<"q","u","i","t">>, <<"e","x","i","t">>}

\* the operation an action word stands for
OpOf(a) ==
  IF a \in ListAliases THEN "list"
  ELSE IF a \in AddAliases THEN "add"
  ELSE IF a \in RemoveAliases THEN "remove"
  ELSE IF a \in DoneAliases THEN "done"
  ELSE IF a \in UndoAliases THEN "undo"
  ELSE IF a \in ClearAliases THEN "clear"
  ELSE IF a \in HelpAliases THEN "help"
  ELSE IF a \in QuitAliases THEN "quit"
  ELSE "unknown"

ArgOps == {"add", "remove", "done", "undo"}

\* what main() makes of a line read at the main prompt
Command(line) ==
  [line |-> line,
   blank |-> Cmd(line) = <<>>,
   op |-> IF Cmd(line) = <<>> THEN "none" ELSE OpOf(Action(line)),
   arg |-> Arg(line)]

\* instance p is at the main prompt and reads the non-blank command c for op
Reads(p, c, op) ==
  /\ pc[p] = "prompt"
  /\ ~c.blank
  /\ c.op = op

\* the call an operation with an argument makes
Run(op, ts, f, a) ==
  IF op = "add" THEN add_task(ts, f, a)
  ELSE IF op = "remove" THEN remove_task(ts, f, a)
  ELSE IF op = "done" THEN mark_done(ts, f, a, TRUE)
  ELSE mark_done(ts, f, a, FALSE)

\* the model takes a successful add only while the list has room
Room(p, op, a) == op = "add" /\ Strip(a) # <<>> => Len(tasks[p]) < MaxTasks

Marks == {"done", "undo"}

\* the step before, by p, set a flag on the task that op with argument a
\* is about to set a flag on
Repeats(p, op, a) ==
  /\ op \in Marks /\ IntOk(a) /\ IntVal(a) \in 1..Len(tasks[p])
  /\ who = p /\ last.op \in Marks /\ nsaves = 1
  /\ IntVal(last.arg) = IntVal(a)

\* the branch of an operation with a task number when nothing catches the
\* ValueError of int(): the exception leaves main()
ExecUncaught(p, op, a, in) ==
  LET r == Run(op, tasks[p], file, a)
      raises == op \in {"remove", "done", "undo"} /\ ~IntOk(a)
  IN /\ Room(p, op, a)
     /\ file' = r.file
     /\ tasks' = [tasks EXCEPT ![p] = IF raises THEN tasks[p]
                                               ELSE load_tasks(r.file)]
     /\ pc' = [pc EXCEPT ![p] = IF raises THEN "crashed" ELSE "prompt"]
     /\ inp' = in
     /\ last' = Call(op, a)
     /\ out' = IF raises THEN <<>> ELSE r.out
     /\ nsaves' = r.nsaves
     /\ who' = p
     /\ prior' = IF Repeats(p, op, a) THEN last.op ELSE "none"
\* the branch of an operation that reads the file again before it acts
ExecFresh(p, op, a, in) ==
  LET r == Run(op, load_tasks(file), file, a)
  IN /\ Room(p, op, a)
     /\ file' = r.file
     /\ tasks' = [tasks EXCEPT ![p] = load_tasks(r.file)]
     /\ pc' = [pc EXCEPT ![p] = "prompt"]
     /\ inp' = in
     /\ last' = Call(op, a)
     /\ out' = r.out
     /\ nsaves' = r.nsaves
     /\ who' = p
     /\ prior' = IF Repeats(p, op, a) THEN last.op ELSE "none"
\* the branch of an operation with an argument, the reload included
Exec(p, op, a, in) ==
  LET r == Run(op, tasks[p], file, a)
  IN /\ Room(p, op, a)
     /\ file' = r.file
     /\ tasks' = [tasks EXCEPT ![p] = load_tasks(r.file)]
     /\ pc' = [pc EXCEPT ![p] = "prompt"]
     /\ inp' = in
     /\ last' = Call(op, a)
     /\ out' = r.out
     /\ nsaves' = r.nsaves
     /\ who' = p
     /\ prior' = IF Repeats(p, op, a) THEN last.op ELSE "none"

\* a step that leaves the list and the file alone
Quiet(p, to, in, c, o) ==
  /\ pc' = [pc EXCEPT ![p] = to]
  /\ inp' = in
  /\ last' = c
  /\ out' = o
  /\ nsaves' = 0
  /\ who' = p
  /\ prior' = "none"
  /\ UNCHANGED <<file, tasks>>

(***************************************************************************)
(* main(), one action per branch.                                          *)
(***************************************************************************)
Startup(p) ==
  /\ pc[p] = "start"
  /\ tasks' = [tasks EXCEPT ![p] = load_tasks(file)]
  /\ pc' = [pc EXCEPT ![p] = "prompt"]
  /\ inp' = NoInput
  /\ last' = NoCall
  /\ out' = <<Msg("Simple To-Do CLI (persistent). Type 'h' or 'help' for commands.\n", <<>>)>>
  /\ nsaves' = 0
  /\ who' = p
  /\ prior' = "none"
  /\ UNCHANGED file

\* KeyboardInterrupt or EOFError at the main prompt
ReadEnd(p, in) ==
  /\ pc[p] = "prompt"
  /\ in.kind \in {"eof", "interrupt"}
  /\ Quiet(p, "terminated", in, NoCall, <<Msg("\nExiting.", <<>>)>>)

\* a blank line that falls through to the unknown-command branch
ReadBlankUnknown(p, c) ==
  /\ pc[p] = "prompt"
  /\ c.blank
  /\ Quiet(p, "prompt", Line(c.line), NoCall,
           <<Msg("Unknown command. Type 'h' or 'help' to see commands.", <<>>)>>)
ReadBlank(p, c) ==
  /\ pc[p] = "prompt"
  /\ c.blank
  /\ Quiet(p, "prompt", Line(c.line), NoCall, <<>>)

\* a listing that also writes the list back
ListCmdSaves(p, c) ==
  /\ Reads(p, c, "list")
  /\ file' = save_tasks(tasks[p])
  /\ pc' = [pc EXCEPT ![p] = "prompt"]
  /\ inp' = Line(c.line)
  /\ last' = Call("list", <<>>)
  /\ out' = list_tasks(tasks[p])
  /\ nsaves' = 1
  /\ who' = p
  /\ prior' = "none"
  /\ UNCHANGED tasks
ListCmd(p, c) ==
  /\ Reads(p, c, "list")
  /\ Quiet(p, "prompt", Line(c.line), Call("list", <<>>), list_tasks(tasks[p]))

\* add, remove, done or undo with its argument on the command line
ArgCmd(p, c) ==
  /\ \E op \in ArgOps : Reads(p, c, op)
  /\ c.arg # <<>>
  /\ Exec(p, c.op, c.arg, Line(c.line))

\* add, remove, done or undo without an argument: ask for it
AskArg(p, c) ==
  /\ \E op \in ArgOps : Reads(p, c, op)
  /\ c.arg = <<>>
  /\ Quiet(p, c.op, Line(c.line), NoCall, <<>>)

\* the answer to "Task text: " or "Task number to ...: "
ReadArg(p, line) ==
  /\ pc[p] \in ArgOps
  /\ Exec(p, pc[p], Strip(line), Line(line))

ClearCmd(p, c) ==
  /\ Reads(p, c, "clear")
  /\ Quiet(p, "confirm", Line(c.line), NoCall, <<>>)

\* the answer to "Are you sure you want to remove ALL tasks? (y/N): "
ReadConfirmPrefix(p, line) ==
  LET confirm == Lower(Strip(line))
      r == clear_tasks(tasks[p], file)
  IN /\ pc[p] = "confirm"
     /\ IF confirm # <<>> /\ Head(confirm) = "y"
        THEN /\ file' = r.file
             /\ tasks' = [tasks EXCEPT ![p] = <<>>]
             /\ pc' = [pc EXCEPT ![p] = "prompt"]
             /\ inp' = Line(line)
             /\ last' = Call("clear", confirm)
             /\ out' = r.out
             /\ nsaves' = r.nsaves
             /\ who' = p
             /\ prior' = "none"
        ELSE Quiet(p, "prompt", Line(line), NoCall, <<Msg("Canceled.", <<>>)>>)
ReadConfirm(p, line) ==
  LET confirm == Lower(Strip(line))
      r == clear_tasks(tasks[p], file)
  IN /\ pc[p] = "confirm"
     /\ IF confirm = <<"y">>
        THEN /\ file' = r.file
             /\ tasks' = [tasks EXCEPT ![p] = <<>>]
             /\ pc' = [pc EXCEPT ![p] = "prompt"]
             /\ inp' = Line(line)
             /\ last' = Call("clear", confirm)
             /\ out' = r.out
             /\ nsaves' = r.nsaves
             /\ who' = p
             /\ prior' = "none"
        ELSE Quiet(p, "prompt", Line(line), NoCall, <<Msg("Canceled.", <<>>)>>)

\* KeyboardInterrupt or EOFError at a follow-up prompt: nothing catches it,
\* the exception leaves main() and the process ends with a traceback
PromptEnd(p, in) ==
  /\ pc[p] \in ArgOps \cup {"confirm"}
  /\ in.kind \in {"eof", "interrupt"}
  /\ Quiet(p, "crashed", in, NoCall, <<>>)

HelpCmd(p, c) ==
  /\ Reads(p, c, "help")
  /\ Quiet(p, "prompt", Line(c.line), Call("help", <<>>), show_help)

QuitCmd(p, c) ==
  /\ Reads(p, c, "quit")
  /\ Quiet(p, "terminated", Line(c.line), NoCall, <<Msg("Bye!", <<>>)>>)

UnknownCmd(p, c) ==
  /\ Reads(p, c, "unknown")
  /\ Quiet(p, "prompt", Line(c.line), NoCall,
           <<Msg("Unknown command. Type 'h' or 'help' to see commands.", <<>>)>>)

(***************************************************************************)
(* The inputs the model draws.                                             *)
(***************************************************************************)
W(w, a) == w \o <<" ">> \o a

IndexArgs ==
  { <<"1">>, <<"2">>, <<"3">>, <<"0">>, <<"-","1">>, <<"+","1">>, <<" ","2">>,
    <<"0","_","2">>, <<"x">> }

TextArgs ==
  { <<"x">>, <<" ","x">>, <<"y","|","z">>, <<"x",CR,"y","|","z">> }

CommandLines ==
  { <<>>, <<" ">> }
  \cup { <<"l">>, <<"L","i","s","t">>, <<"h">>, <<"q">>, <<"E","x","i","t">> }
  \cup { <<"x">>, <<"a",TAB,"x">> }
  \cup { <<"a">>, <<"r">>, <<"D","o","n","e">>, <<"u">>, <<"c">> }
  \cup { W(<<"a">>, a) : a \in TextArgs }
  \cup { W(<<"r">>, a) : a \in IndexArgs }
  \cup { W(<<"d">>, a) : a \in {<<"1">>, <<"2">>, <<"3">>, <<"0">>} }
  \cup { W(<<"u">>, a) : a \in {<<"1">>, <<"2">>, <<"x">>} }

\* the commands main() makes of them
Commands == {Command(line) : line \in CommandLines}

\* the answers drawn at a follow-up prompt
AnswerLines(at) ==
  IF at = "add"
  THEN { <<>>, <<" ">>, <<" ","x"," ">>, <<"y","|","z">>, <<"x",CR,"y","|","z">> }
  ELSE IF at \in {"remove", "done", "undo"}
  THEN { <<>>, <<"1">>, <<" ","2"," ">>, <<"0">>, <<"4">>, <<"x">> }
  ELSE IF at = "confirm"
  THEN { <<"y">>, <<"Y">>, <<" ","y"," ">>, <<"n">>, <<"q">>, <<>>,
         <<"y","e","s">> }
  ELSE {}

\* what tasks.txt holds when the program starts
InitFiles ==
  { Absent,
    Existing(<<>>),
    Existing(<<"0","|","x",NL, "1","|","y",NL, "0","|","y","|","z",NL>>),
    Existing(<<"1","|","x",NL, NL, "z",CR,NL, "0","|">>),
    Existing(<<"2","|","x",NL, "|"," ","y"," ",NL>>) }

(***************************************************************************)
(* The program: one running instance.                                      *)
(***************************************************************************)
Idle ==
  /\ inp = NoInput
  /\ last = NoCall
  /\ out = <<>>
  /\ nsaves = 0
  /\ who = "none"
  /\ prior = "none"

Init ==
  /\ file \in InitFiles
  /\ tasks = [p \in Instances |-> <<>>]
  /\ pc = [p \in Instances |-> IF p = "A" THEN "start" ELSE "off"]
  /\ Idle

Next ==
  \E p \in Instances :
    \/ Startup(p)
    \/ \E in \in {Eof, Interrupt} : ReadEnd(p, in) \/ PromptEnd(p, in)
    \/ \E c \in Commands :
         \/ ReadBlank(p, c)
         \/ ListCmd(p, c)
         \/ ArgCmd(p, c)
         \/ AskArg(p, c)
         \/ ClearCmd(p, c)
         \/ HelpCmd(p, c)
         \/ QuitCmd(p, c)
         \/ UnknownCmd(p, c)
    \/ \E line \in AnswerLines(pc[p]) : ReadArg(p, line) \/ ReadConfirm(p, line)

Spec == Init /\ [][Next]_vars

(***************************************************************************)
(* load_tasks and save_tasks on their own: a raw file is loaded, saved and *)
(* loaded again; a given task sequence is saved and loaded.                *)
(***************************************************************************)
Chars == {"0", "1", "|", " ", NL, CR}
TextChars == {"0", "|", " ", NL, CR}

Strings(S, n) == UNION {[1..k -> S] : k \in 0..n}

GivenTasks == {Task(d, t) : d \in BOOLEAN, t \in Strings(TextChars, MaxTextLen)}
GivenLists == UNION {[1..k -> GivenTasks] : k \in 0..MaxGiven}

Only(at) == [p \in Instances |-> IF p = "A" THEN at ELSE "off"]

InitStore ==
  /\ \/ /\ file \in {Absent} \cup {Existing(d) : d \in Strings(Chars, MaxFileLen)}
        /\ tasks = [p \in Instances |-> <<>>]
        /\ pc = Only("raw")
     \/ /\ file = Absent
        /\ \E T \in GivenLists :
             tasks = [p \in Instances |-> IF p = "A" THEN T ELSE <<>>]
        /\ pc = Only("given")
  /\ Idle

StoreLoad ==
  /\ pc["A"] \in {"raw", "saved", "rewritten"}
  /\ tasks' = [tasks EXCEPT !["A"] = load_tasks(file)]
  /\ pc' = Only(IF pc["A"] = "raw" THEN "loaded"
                ELSE IF pc["A"] = "saved" THEN "reloaded" ELSE "reread")
  /\ UNCHANGED <<file, inp, last, out, nsaves, who, prior>>

StoreSave ==
  /\ pc["A"] \in {"given", "loaded"}
  /\ file' = save_tasks(tasks["A"])
  /\ pc' = Only(IF pc["A"] = "given" THEN "saved" ELSE "rewritten")
  /\ nsaves' = 1
  /\ UNCHANGED <<tasks, inp, last, out, who, prior>>

NextStore == StoreLoad \/ StoreSave

SpecStore == InitStore /\ [][NextStore]_vars

(***************************************************************************)
(* Two instances of the program started in the same directory: each has    *)
(* its own in-memory list, both read and write the one tasks.txt.  A step  *)
(* is one command of one instance; the instances interleave freely.        *)
(***************************************************************************)
\* what the user of each instance types
TwoLines ==
  [p \in Instances |->
     IF p = "A"
     THEN { <<"l">>, W(<<"a">>, <<"x">>), W(<<"d">>, <<"1">>) }
     ELSE { <<"l">>, W(<<"a">>, <<"y","|","z">>), W(<<"u">>, <<"1">>) }]

TwoCommands == [p \in Instances |-> {Command(line) : line \in TwoLines[p]}]

InitTwo ==
  /\ file \in {Absent, Existing(<<"1","|","w",NL>>)}
  /\ tasks = [p \in Instances |-> <<>>]
  /\ pc = [p \in Instances |-> "start"]
  /\ Idle

NextTwo ==
  \E p \in Instances :
    \/ Startup(p)
    \/ \E c \in TwoCommands[p] : ListCmd(p, c) \/ ArgCmd(p, c)

SpecTwo == InitTwo /\ [][NextTwo]_vars

(***************************************************************************)
(* Properties.  The program properties are about instance "A" of Spec, the *)
(* store properties about SpecStore.                                       *)
(***************************************************************************)
Mem == tasks["A"]
At == pc["A"]

\* the latest step called op with an argument that int() accepts and that
\* is a position of the list it was called on
ValidIndex(a, ts) == IntOk(a) /\ IntVal(a) \in 1..Len(ts)

One(m) == <<Msg(m, <<>>)>>

\* C1: whenever the command loop is about to read a command, the in-memory
\* list equals what loading the backing file gives (the empty list when the
\* file is absent).
C1_MemoryMatchesFile ==
  \A p \in Instances : pc[p] = "prompt" => tasks[p] = load_tasks(file)

C1_Witness ==
  /\ At = "prompt"
  /\ last.op = "clear"
  /\ ~file.exists
  /\ Mem = <<>>

\* no text of ts contains a line terminator
NoTerminator(ts) ==
  \A i \in 1..Len(ts) : \A j \in 1..Len(ts[i].text) : ts[i].text[j] \notin {NL, CR}

\* C2: for a task sequence whose texts contain no line terminator, saving it
\* and then loading gives back the same sequence: same length, same order,
\* same flag and same text at every position.
C2_RoundTrip ==
  [][(At = "saved" /\ pc'["A"] = "reloaded" /\ NoTerminator(Mem))
       => tasks'["A"] = Mem]_vars

C2_Witness ==
  /\ At = "reloaded"
  /\ Mem = <<Task(TRUE, <<"|">>), Task(FALSE, <<" ">>)>>

\* C3: remove, done or undo with an argument that is not an integer, or is
\* an integer outside 1..N, changes neither the list nor the file, saves
\* nothing and prints the matching rejection message.
C3_BadIndexRejected ==
  [][(last'.op \in {"remove", "done", "undo"} /\ ~ValidIndex(last'.arg, Mem))
       => /\ tasks' = tasks
          /\ file' = file
          /\ nsaves' = 0
          /\ out' = IF IntOk(last'.arg) THEN One("Invalid task number.")
                    ELSE One("Please enter a valid number.")]_vars

C3_Witness ==
  /\ last = Call("done", <<"0">>)
  /\ Len(Mem) = 2
  /\ out = One("Invalid task number.")
  /\ nsaves = 0

\* C4: end-of-input or an interrupt at any prompt (the main prompt, a
\* follow-up prompt, the clear confirmation) prints a farewell line and
\* terminates the loop gracefully with the list and the file unchanged.
C4_EndOfInputIsGraceful ==
  [][(inp'.kind \in {"eof", "interrupt"}
        /\ At \in {"prompt", "confirm"} \cup ArgOps)
       => /\ pc'["A"] = "terminated"
          /\ out' = One("\nExiting.")
          /\ tasks' = tasks
          /\ file' = file]_vars

\* C5 as stated: clear deletes the file and empties the list only when the
\* answer is y; any other answer leaves both intact and prints "Canceled.".
C5_OnlyLiteralY ==
  [][(At = "confirm" /\ inp'.kind = "line")
       => IF inp'.text = <<"y">>
          THEN ~file'.exists /\ tasks'["A"] = <<>>
          ELSE tasks' = tasks /\ file' = file /\ out' = One("Canceled.")]_vars

\* C5 as amended: clear deletes the file and empties the list only when the
\* answer, stripped of surrounding white space and lower-cased, is y; any
\* other answer leaves both intact and prints "Canceled.".
C5_ClearGated ==
  [][(At = "confirm" /\ inp'.kind = "line")
       => IF Lower(Strip(inp'.text)) = <<"y">>
          THEN ~file'.exists /\ tasks'["A"] = <<>>
          ELSE tasks' = tasks /\ file' = file /\ out' = One("Canceled.")]_vars

C5_Witness ==
  /\ inp = Line(<<"Y">>)
  /\ last.op = "clear"
  /\ ~file.exists
  /\ Mem = <<>>
  /\ At = "prompt"

\* C6: a successful add of a text that is non-empty after trimming appends
\* exactly one task [done = FALSE, text = trimmed text] at the end, keeps
\* the earlier tasks as they were, and persists the result.
C6_AddAppendsOne ==
  [][(last'.op = "add" /\ Strip(last'.arg) # <<>>)
       => /\ tasks'["A"] = Append(Mem, Task(FALSE, Strip(last'.arg)))
          /\ load_tasks(file') = tasks'["A"]
          /\ nsaves' = 1]_vars

\* C7: after a successful done i (undo i) the reloaded list has the flag of
\* task i set (cleared) and is otherwise the list as it was.
C7_MarkDoneFrame ==
  [][(last'.op \in {"done", "undo"} /\ ValidIndex(last'.arg, Mem))
       => LET i == IntVal(last'.arg)
              after == tasks'["A"]
          IN /\ after = load_tasks(file')
             /\ Len(after) = Len(Mem)
             /\ after[i].done = (last'.op = "done")
             /\ \A j \in 1..Len(Mem) :
                  /\ after[j].text = Mem[j].text
                  /\ j # i => after[j].done = Mem[j].done]_vars

C7_Witness ==
  /\ last = Call("undo", <<"2">>)
  /\ nsaves = 1
  /\ Len(Mem) = 3
  /\ Mem[1].done /\ ~Mem[2].done

\* C8: a successful remove i deletes exactly task i and persists the
\* result: the tasks below i stay, those above move down by one, each with
\* its text and flag, and the text printed is that of the removed task.
C8_RemoveShifts ==
  [][(last'.op = "remove" /\ ValidIndex(last'.arg, Mem))
       => LET i == IntVal(last'.arg)
              after == tasks'["A"]
          IN /\ after = load_tasks(file')
             /\ Len(after) = Len(Mem) - 1
             /\ \A j \in 1..(i - 1) : after[j] = Mem[j]
             /\ \A j \in (i + 1)..Len(Mem) : after[j - 1] = Mem[j]
             /\ out' = <<Msg("Removed task: ", Mem[i].text)>>]_vars

C8_Witness ==
  /\ last = Call("remove", <<"2">>)
  /\ nsaves = 1
  /\ Len(Mem) = 2
  /\ out = <<Msg("Removed task: ", <<"y">>)>>

\* C9: an add whose text is empty or all white space changes neither the
\* list nor the file, saves nothing (an absent file stays absent) and prints
\* a rejection message.
C9_EmptyAddRejected ==
  [][(last'.op = "add" /\ Strip(last'.arg) = <<>>)
       => /\ tasks' = tasks
          /\ file' = file
          /\ nsaves' = 0
          /\ out' = One("Empty task not added.")]_vars

C9_Witness ==
  /\ last.op = "add"
  /\ inp = Line(<<" ">>)
  /\ out = One("Empty task not added.")
  /\ ~file.exists

RECURSIVE TextLines(_, _)
\* the lines of a text, without their terminators ("\n", "\r" or "\r\n")
TextLines(s, cur) ==
  IF s = <<>> THEN (IF cur = <<>> THEN <<>> ELSE <<cur>>)
  ELSE IF Head(s) = CR /\ Len(s) >= 2 /\ s[2] = NL
  THEN <<cur>> \o TextLines(Tail(Tail(s)), <<>>)
  ELSE IF Head(s) \in {CR, NL} THEN <<cur>> \o TextLines(Tail(s), <<>>)
  ELSE TextLines(Tail(s), Append(cur, Head(s)))

Flagged(l) == Len(l) >= 2 /\ l[1] \in {"0", "1"} /\ l[2] = "|"

ExpectedTask(l) ==
  IF Flagged(l) THEN Task(l[1] = "1", SubSeq(l, 3, Len(l))) ELSE Task(FALSE, l)

\* C10: on load, every non-blank line of the form 0|text or 1|text gives a
\* task with that flag and everything after the first "|" as its text; every
\* other non-blank line gives a not-done task whose text is the whole line.
C10_LineParsing ==
  (At = "loaded" /\ file.exists)
    => LET ls == SelectSeq(TextLines(file.data, <<>>), LAMBDA l : l # <<>>)
       IN Mem = [i \in 1..Len(ls) |-> ExpectedTask(ls[i])]

C10_Witness ==
  /\ At = "loaded"
  /\ file = Existing(<<"|", NL, "1", "|">>)
  /\ Mem = <<Task(FALSE, <<"|">>), Task(TRUE, <<>>)>>

\* C11: a list or help command changes neither the in-memory list nor the
\* file, in any state: it calls no save, creates no file where none exists
\* and leaves a file with blank or fallback lines byte for byte as it was.
C11_ListAndHelpArePure ==
  [][last'.op \in {"list", "help"} =>
       /\ tasks' = tasks
       /\ file' = file
       /\ nsaves' = 0
       /\ pc' = pc]_vars

\* a listing of the three tasks loaded from a file with a blank line, a
\* fallback line and a carriage return, the file still as it was
C11_Witness ==
  /\ last = Call("list", <<>>)
  /\ file = Existing(<<"1","|","x",NL, NL, "z",CR,NL, "0","|">>)
  /\ Len(Mem) = 3
  /\ Len(out) = 5

\* the status messages of add_task, remove_task, mark_done, clear_tasks and
\* of the clear and unknown-command branches of main(); none holds a newline
StatusMsgs ==
  { "Empty task not added.", "Added task: ",
    "Please enter a valid number.", "Invalid task number.", "Removed task: ",
    "Marked task {index} as: Done", "Marked task {index} as: Not done",
    "All tasks cleared.", "Canceled.",
    "Unknown command. Type 'h' or 'help' to see commands." }

\* o is one print of a status message, and what is interpolated into it
\* holds no newline: one line on standard output
OneStatusLine(o) ==
  /\ Len(o) = 1
  /\ o[1].msg \in StatusMsgs
  /\ \A i \in 1..Len(o[1].arg) : o[1].arg[i] # NL

\* the step that ends the handling of add, remove, done, undo, clear or of
\* an unrecognized command, by success, rejection or cancel
Handled ==
  \/ last'.op \in ArgOps
  \/ At = "confirm" /\ inp'.kind = "line"
  \/ At = "prompt" /\ inp'.kind = "line" /\ Command(inp'.text).op = "unknown"

\* C12: handling add, remove, done, undo, clear or an unrecognized command
\* prints exactly one status line on every path, success, rejection or
\* cancel: the step that asks for the argument or the confirmation prints
\* nothing, the step that ends the handling prints one line, never two.
C12_OneStatusLine ==
  [][/\ Handled => OneStatusLine(out')
     /\ At = "prompt" /\ pc'["A"] \in ArgOps \cup {"confirm"} => out' = <<>>]_vars

\* the empty answer to "Task text: " was rejected with its one line
C12_Witness ==
  /\ inp = Line(<<" ">>)
  /\ last = Call("add", <<>>)
  /\ out = One("Empty task not added.")
  /\ nsaves = 0

\* main() is inside its loop: at the command prompt or at a follow-up prompt
Running == {"prompt", "confirm"} \cup ArgOps

\* the input that ends the loop: a quit command at the command prompt, or
\* end of input or an interrupt at any prompt
Ending(at, in) ==
  \/ in.kind \in {"eof", "interrupt"}
  \/ at = "prompt" /\ in.kind = "line" /\ Command(in.text).op = "quit"

\* C13: the loop leaves Running only on a quit command (q, quit, exit) or on
\* end of input or an interrupt; after any other input line, whatever it
\* holds (an unknown command, a bad index, an empty add, a canceled clear),
\* the program is Running again, waiting for the next line.
C13_OnlyQuitOrEndStops ==
  [][IF At \notin Running THEN TRUE
     ELSE IF Ending(At, inp') THEN pc'["A"] \notin Running
                              ELSE pc'["A"] \in Running]_vars

\* a remove with a task number that is no number was rejected and the
\* program is back at the command prompt
C13_Witness ==
  /\ last = Call("remove", <<"x">>)
  /\ out = One("Please enter a valid number.")
  /\ At = "prompt"

\* C14: each instance refreshes its list only by its own commands, and a
\* mutating command writes the whole file from the list of the instance that
\* ran it: after a successful add by p the file holds p's list as it was,
\* plus the new task, whatever another instance saved in the meantime.
C14_WholeFileFromOwnCopy ==
  [][\A p \in Instances : who' = p =>
       /\ \A q \in Instances \ {p} : tasks'[q] = tasks[q]
       /\ nsaves' = 1 => load_tasks(file') = tasks'[p]
       /\ last'.op = "add" /\ nsaves' = 1 =>
            load_tasks(file') = Append(tasks[p], Task(FALSE, Strip(last'.arg)))]_vars

\* the lost update: A holds the task x it added and saved (only A adds x,
\* and no command of this specification removes a task), B has just added
\* y|z from the empty list it loaded at startup, and the file holds y|z alone
C14_LostUpdate ==
  /\ pc = [p \in Instances |-> "prompt"]
  /\ who = "B" /\ last.op = "add" /\ nsaves = 1
  /\ tasks["A"] = <<Task(FALSE, <<"x">>)>>
  /\ tasks["B"] = <<Task(FALSE, <<"y","|","z">>)>>
  /\ load_tasks(file) = tasks["B"]

\* the list the latest step handed to save_tasks
Saved == Run(last'.op, Mem, file, last'.arg).tasks

\* C15: immediately after any save the file holds exactly one line per
\* in-memory task, in order, each of the form flag|text with the task's flag
\* and text, and no blank line; the file changes by a save or by its removal
\* only, so from the first save on it holds no blank and no fallback line.
C15_SavedFileIsClean ==
  [][/\ nsaves' = 1 =>
          LET ls == TextLines(file'.data, <<>>)
          IN /\ file'.exists
             /\ Len(ls) = Len(Saved)
             /\ \A i \in 1..Len(ls) :
                  /\ ls[i] # <<>>
                  /\ Flagged(ls[i])
                  /\ ExpectedTask(ls[i]) = Saved[i]
     /\ file' # file => nsaves' = 1 \/ ~file'.exists]_vars

\* C16: at the command prompt an unrecognized command prints the fixed
\* unknown-command message and a blank line prints nothing; both leave the
\* in-memory list and the file as they were, call no operation, and the
\* next line is read as a command, not as an argument.
C16_UnknownAndBlank ==
  [][At = "prompt" /\ inp'.kind = "line"
       /\ (Strip(inp'.text) = <<>> \/ Command(inp'.text).op = "unknown") =>
       /\ out' = IF Strip(inp'.text) = <<>> THEN <<>>
                 ELSE One("Unknown command. Type 'h' or 'help' to see commands.")
       /\ tasks' = tasks
       /\ file' = file
       /\ nsaves' = 0
       /\ last' = NoCall
       /\ pc'["A"] = "prompt"]_vars

\* "a<TAB>x" is no add (the command word ends at a space only): it was
\* answered with the unknown-command message, on a list that holds tasks
C16_Witness ==
  /\ inp = Line(<<"a", TAB, "x">>)
  /\ out = One("Unknown command. Type 'h' or 'help' to see commands.")
  /\ At = "prompt"
  /\ Len(Mem) = 2

\* C17: loading is idempotent over a save: for any file content F, blank and
\* fallback lines included, the list loaded from F, saved and loaded again is
\* the list loaded from F.  The first mutating command normalises the file
\* and loses or alters no task.
C17_LoadSaveLoad ==
  [][(At = "rewritten" /\ pc'["A"] = "reread") =>
       /\ file = save_tasks(Mem)
       /\ tasks'["A"] = Mem]_vars

\* F was a fallback line "0" and an unterminated "1|": its two tasks were
\* written back in the normal form and read again
C17_Witness ==
  /\ At = "reread"
  /\ Mem = <<Task(FALSE, <<"0">>), Task(TRUE, <<>>)>>
  /\ file = Existing(<<"0","|","0",NL, "1","|",NL>>)

\* the latest two steps are successful done or undo commands on one task
TwiceMarked ==
  /\ last.op \in Marks /\ nsaves = 1
  /\ last'.op \in Marks /\ nsaves' = 1
  /\ IntVal(last.arg) = IntVal(last'.arg)

\* C18: done and undo are idempotent and override each other: when a done
\* or undo of task i follows a done or undo of task i, task i has the flag
\* of the second command and every other task is as it was; when the two
\* commands are the same, the second changes neither the list nor the file.
C18_MarksOverride ==
  [][TwiceMarked =>
       /\ tasks'["A"] =
            [Mem EXCEPT ![IntVal(last'.arg)].done = (last'.op = "done")]
       /\ load_tasks(file') = tasks'["A"]
       /\ last'.op = last.op => tasks' = tasks /\ file' = file]_vars

\* undo 1 right after done 1: task 1 is not done again
C18_Witness ==
  /\ last = Call("undo", <<"1">>)
  /\ prior = "done"
  /\ nsaves = 1
  /\ ~Mem[1].done

\* C19: a confirmed clear leaves no file and an empty list; from there
\* every command but a successful add (list, help, an unrecognized command,
\* remove, done, undo, a canceled clear, a rejected add) leaves both so, and
\* a successful add creates the file, which then holds exactly the one
\* added task, as does the list.
C19_ClearedUntilAdd ==
  [][/\ last'.op = "clear" => ~file'.exists /\ tasks'["A"] = <<>>
     /\ (~file.exists /\ Mem = <<>> /\ At \in Running) =>
          IF last'.op = "add" /\ Strip(last'.arg) # <<>>
          THEN /\ file'.exists
               /\ load_tasks(file') = <<Task(FALSE, Strip(last'.arg))>>
               /\ tasks'["A"] = load_tasks(file')
          ELSE /\ file' = file
               /\ tasks'["A"] = Mem]_vars
====
